---- MODULE Spec2Model ----
(***************************************************************************)
(* The query lifecycle of the lumen bot (src/bot/main.py): on_message      *)
(* (doubt submission), resolve_doubt and list_open_doubts, run as          *)
(* coroutines of one event loop against two external systems, the chat     *)
(* service (threads, messages) and the document store (collection          *)
(* "queries").                                                             *)
(*                                                                         *)
(* A handler is suspended at an await.  The awaits that touch state shared *)
(* between handlers (thread creation, store set/get/update/query) are the  *)
(* step boundaries of the model.  An await of a message send touches no    *)
(* shared state (it only appends to what that handler has sent), so the    *)
(* sends that follow a shared operation are part of the same step; their   *)
(* order and their outcomes are kept in the handler's trace.               *)
(***************************************************************************)
EXTENDS Integers, Sequences, FiniteSets, TLC

(* ------------------------------ bounds ------------------------------ *)
\* Threads the chat service may create in one run (ids 1..MaxThreads).
MaxThreads == 2
\* Longest message text, in tokens, of the single-submission specification.
MaxTextLen == 5

(* --------------------------- identities ----------------------------- *)
\* Two handler coroutines may be suspended at the same time.
Handlers == {"h1", "h2"}
\* bot.user, and two members.
BotUser == 0
Users == {1, 2}
\* A thread the bot did not create (any other thread of the guild).
ForeignThread == 0
\* ctx.channel when it is not a discord.Thread.
NoThread == -1
ThreadIds == 1..MaxThreads
StoreKeys == {ForeignThread} \cup ThreadIds

UserName(u) == IF u = BotUser THEN "lumen" ELSE IF u = 1 THEN "ana" ELSE "ben"
\* discord's User.mention: the token a user mention has in message text.
MentionStr(u) == "<@" \o ToString(u) \o ">"

(* ------------------------------- text -------------------------------- *)
(* A text is a sequence of tokens, each a string of characters: the       *)
(* keyword in two spellings, a blank, a two-character word and the         *)
(* mention tokens.  String operations act on whole tokens; lengths are in  *)
(* characters.                                                             *)
Blank == " "
TextTokens == {"doubt", "DOUBT", Blank, "ww", MentionStr(1), MentionStr(2)}

RECURSIVE CharLen(_)
\* len(s)
CharLen(s) == IF s = <<>> THEN 0 ELSE Len(Head(s)) + CharLen(Tail(s))

\* str.lower(), token by token
LowerTok(t) == IF t \in {"DOUBT", "Doubt"} THEN "doubt" ELSE t
Lower(s) == [i \in 1..Len(s) |-> LowerTok(s[i])]

RECURSIVE LStrip(_)
LStrip(s) == IF s # <<>> /\ Head(s) = Blank THEN LStrip(Tail(s)) ELSE s
RECURSIVE RStrip(_)
RStrip(s) == IF s # <<>> /\ s[Len(s)] = Blank THEN RStrip(SubSeq(s, 1, Len(s) - 1)) ELSE s
\* str.strip()
Strip(s) == RStrip(LStrip(s))

\* str.replace(tok, "")
RemoveAll(s, tok) == SelectSeq(s, LAMBDA t : t # tok)

\* Mutant of IsDoubt: the keyword is looked for anywhere in the text.
IsDoubtAnywhere(content) == \E i \in 1..Len(content) : Lower(content)[i] = "doubt"

\* message.content.lower().startswith("doubt")
IsDoubt(content) == content # <<>> /\ Lower(content)[1] = "doubt"

\* message.content[len("doubt"):].strip(); the first token is the keyword
AfterPrefix(content) == Strip(Tail(content))

RECURSIVE StripMentions(_, _)
\* the loop over message.mentions: replace(mention.mention, "").strip()
StripMentions(s, mentions) ==
    IF mentions = <<>> THEN s
    ELSE StripMentions(Strip(RemoveAll(s, MentionStr(Head(mentions)))), Tail(mentions))

\* doubt_description
Description(content, mentions) == StripMentions(AfterPrefix(content), mentions)

min_doubt_description_length == 5

\* Mutant of TooShort: a description of the minimum length is rejected too.
TooShortInclusive(desc) == CharLen(desc) <= min_doubt_description_length

\* len(doubt_description) < min_doubt_description_length
TooShort(desc) == CharLen(desc) < min_doubt_description_length

(* ----------------------------- messages ------------------------------ *)
Msg(id, author, content, mentions) ==
    [id |-> id, author |-> author, content |-> content, mentions |-> mentions]
NoMsg == Msg(0, BotUser, <<>>, <<>>)

\* The messages of the concurrent specification.
Messages ==
    { Msg(11, 1, <<"doubt", Blank, MentionStr(2), Blank, MentionStr(1), Blank, "ww", Blank, "ww">>, <<2, 1>>),
      Msg(12, 2, <<"DOUBT", Blank, MentionStr(1), Blank, "ww", "ww">>, <<1>>),
      Msg(13, 1, <<"doubt", Blank, "ww", "ww", "ww">>, <<>>),
      Msg(14, 2, <<"ww", Blank, "doubt", Blank, MentionStr(1), Blank, "ww", "ww", "ww">>, <<1>>),
      \* the bot's own confirmation of a resolve, delivered back to on_message
      Msg(15, BotUser, <<"Doubt", Blank, "ww", Blank, MentionStr(1)>>, <<1>>) }

\* The messages of the single-submission specification: every text of at
\* most MaxTextLen tokens, with the mention list the chat service delivers
\* with it (every user mentioned in the text, and possibly another one).
MentionLists == {<<>>, <<1>>, <<2, 1>>}
GenTexts == UNION {[1..n -> TextTokens] : n \in 0..MaxTextLen}
MentionedIn(text) == {u \in Users : \E i \in 1..Len(text) : text[i] = MentionStr(u)}
GenMessages ==
    {Msg(20, 1, t, ml) : <<t, ml>> \in
        {x \in GenTexts \X MentionLists :
            MentionedIn(x[1]) \subseteq {x[2][i] : i \in 1..Len(x[2])}}}

\* A word of n characters.
RECURSIVE Word(_)
Word(n) ==
    IF n = 0 THEN ""
    ELSE IF n % 2 = 0 THEN LET half == Word(n \div 2) IN half \o half
    ELSE "w" \o Word(n - 1)

\* The messages of the listing specification: accepted doubts of member 1
\* whose descriptions make a report of one entry exactly 1900 characters
\* long, one character longer, and a few characters long.
LongLens == {1784, 1785, 6}
LongMessages ==
    {Msg(30 + (n % 10), 1, <<"doubt", Blank, MentionStr(2), Blank, Word(n)>>, <<2>>) : n \in LongLens}

(* ------------------------------ records ------------------------------ *)
\* Mutant of DocKey: every document is written under the key of the origin
\* channel instead of the thread's own id.
DocKeyOfChannel(tid) == 1

\* db.collection('queries').document(str(id)): the key of a thread's document
DocKey(tid) == tid

\* No document under a key.
NoDoc == [status |-> "absent"]

\* firestore.SERVER_TIMESTAMP: the server's time when it writes a document.
\* The time of a write is later than that of every earlier write of the same
\* document; times of different documents are never compared.
ServerTime(doc) == IF doc = NoDoc THEN 1 ELSE doc.last_activity_at + 1

\* Mutant of NewDoc: the mentioned ids are stored as a set, in ascending
\* order.
NewDocSortedMentions(m, desc, tid, ts) ==
    [ status |-> "open", thread_id |-> tid, message_id |-> m.id,
      author_id |-> m.author, author_name |-> UserName(m.author),
      query_content |-> m.content, doubt_description |-> desc,
      mentioned_mentors_ids |->
          [i \in 1..Len(m.mentions) |->
              CHOOSE u \in Users :
                  /\ \E j \in 1..Len(m.mentions) : m.mentions[j] = u
                  /\ Cardinality({j \in 1..Len(m.mentions) : m.mentions[j] < u}) = i - 1],
      created_at |-> ts, last_activity_at |-> ts, mentor_pinged |-> FALSE,
      channel_id |-> 1, resolved_by_id |-> 0, resolved_by_name |-> "",
      resolved_at |-> 0 ]

\* The dictionary on_message hands to doc_ref.set(); ts is the server's
\* timestamp.  The resolved_* fields do not exist yet: 0 and "" stand for that.
NewDoc(m, desc, tid, ts) ==
    [ status |-> "open",
      thread_id |-> tid,
      message_id |-> m.id,
      author_id |-> m.author,
      author_name |-> UserName(m.author),
      query_content |-> m.content,
      doubt_description |-> desc,
      mentioned_mentors_ids |-> [i \in 1..Len(m.mentions) |-> m.mentions[i]],
      created_at |-> ts,
      last_activity_at |-> ts,
      mentor_pinged |-> FALSE,
      channel_id |-> 1,
      resolved_by_id |-> 0,
      resolved_by_name |-> "",
      resolved_at |-> 0 ]

\* Mutant of ResolvedDoc: the update also stamps created_at.
ResolvedDocStampsCreation(doc, actor, ts) ==
    [doc EXCEPT !.status = "resolved",
                !.resolved_by_id = actor,
                !.resolved_by_name = UserName(actor),
                !.resolved_at = ts,
                !.last_activity_at = ts,
                !.created_at = ts]

\* query_doc_ref.update({...}) of resolve_doubt applied to a document
ResolvedDoc(doc, actor, ts) ==
    [doc EXCEPT !.status = "resolved",
                !.resolved_by_id = actor,
                !.resolved_by_name = UserName(actor),
                !.resolved_at = ts,
                !.last_activity_at = ts]

(* ------------------------------- state ------------------------------- *)
VARIABLES
    threadCount,  \* threads the chat service has created: ids 1..threadCount
    store,        \* collection "queries": key -> document or NoDoc
    pc,           \* per handler: where its coroutine is suspended
    inv,          \* per handler: the event it was invoked with
    loc,          \* per handler: its local variables
    trace         \* per handler: the external calls it has made, in order

vars == <<threadCount, store, pc, inv, loc, trace>>

\* One external call: ev is the call, kind what was sent or logged, id the
\* thread or document it was about (0: none), ok whether it succeeded.
Call(ev, kind, id, ok) == [ev |-> ev, kind |-> kind, id |-> id, ok |-> ok]
Send(kind, ok) == Call("send", kind, 0, ok)
Log(kind) == Call("log", kind, 0, TRUE)

NoInv == [op |-> "none", msg |-> NoMsg, channel |-> NoThread, actor |-> BotUser, perm |-> FALSE]
NoLoc == [desc |-> <<>>, tid |-> 0, doc |-> NoDoc, open |-> <<>>]

Init ==
    /\ threadCount = 0
    /\ store = [k \in StoreKeys |-> NoDoc]
    /\ pc = [h \in Handlers |-> "idle"]
    /\ inv = [h \in Handlers |-> NoInv]
    /\ loc = [h \in Handlers |-> NoLoc]
    /\ trace = [h \in Handlers |-> <<>>]

(* ----------------------------- scheduling ---------------------------- *)
\* A coroutine that has ended leaves the loop before any other one resumes.
NoneEnded == \A g \in Handlers : pc[g] # "done"

\* An event is handed to the first free slot.
FreeSlot(h) ==
    /\ NoneEnded
    /\ pc[h] = "idle"
    /\ \A g \in Handlers : (g # h /\ pc[g] = "idle") => (h = "h1")

\* The coroutine of slot h is suspended at `at` and is resumed.
Resumes(h, at) == NoneEnded /\ pc[h] = at

(* ---------------------------- on_message ----------------------------- *)
\* Mutant of Classify: the length of the description is checked before the
\* mentions.
ClassifyLengthFirst(m) ==
    IF m.author = BotUser THEN "ignore"
    ELSE IF ~IsDoubt(m.content) THEN "commands"
    ELSE IF TooShort(Description(m.content, m.mentions)) THEN "DescriptionTooShort"
    ELSE IF m.mentions = <<>> THEN "NoMentorTagged"
    ELSE "accept"

\* on_message up to its first shared await: the bot's own messages are
\* ignored, a message that does not start with the keyword goes on to
\* process_commands, a doubt without mentions or with a short description
\* is answered and dropped, any other doubt goes on to create its thread.
Classify(m) ==
    IF m.author = BotUser THEN "ignore"
    ELSE IF ~IsDoubt(m.content) THEN "commands"
    ELSE IF m.mentions = <<>> THEN "NoMentorTagged"
    ELSE IF TooShort(Description(m.content, m.mentions)) THEN "DescriptionTooShort"
    ELSE "accept"

OnMessage(h, m) ==
    /\ FreeSlot(h)
    /\ inv' = [inv EXCEPT ![h] = [NoInv EXCEPT !.op = "submit", !.msg = m]]
    /\ LET c == Classify(m) IN
       IF c \in {"ignore", "commands"}
       THEN /\ pc' = [pc EXCEPT ![h] = "done"]
            /\ UNCHANGED <<loc, trace>>
       ELSE IF c = "accept"
       THEN /\ pc' = [pc EXCEPT ![h] = "create"]
            /\ loc' = [loc EXCEPT ![h].desc = Description(m.content, m.mentions)]
            /\ UNCHANGED trace
       ELSE \* a rejection: the send returns or raises, the handler ends
            /\ \E ok \in BOOLEAN : trace' = [trace EXCEPT ![h] = <<Send(c, ok)>>]
            /\ pc' = [pc EXCEPT ![h] = "done"]
            /\ UNCHANGED loc
    /\ UNCHANGED <<threadCount, store>>

\* Mutant of Apology: the error is logged and nobody is told.
ApologySilent(http, ok) ==
    IF http THEN <<Log("thread_failed")>> ELSE <<Log("unexpected")>>

\* The except clauses of on_message: the error is logged and an apology is
\* sent; http says which clause caught it.
Apology(http, ok) ==
    IF http THEN <<Log("thread_failed"), Send("ThreadApology", ok)>>
    ELSE <<Log("unexpected"), Send("UnexpectedApology", ok)>>

\* await message.create_thread(...)
CreateThread(h) ==
    /\ Resumes(h, "create")
    /\ \/ /\ threadCount < MaxThreads
          /\ threadCount' = threadCount + 1
          /\ loc' = [loc EXCEPT ![h].tid = threadCount + 1]
          /\ trace' = [trace EXCEPT ![h] = Append(@, Call("create_thread", "", threadCount + 1, TRUE))]
          /\ pc' = [pc EXCEPT ![h] = "store_set"]
       \/ /\ \E http \in BOOLEAN, ok \in BOOLEAN :
                trace' = [trace EXCEPT ![h] =
                            Append(@, Call("create_thread", "", 0, FALSE)) \o Apology(http, ok)]
          /\ pc' = [pc EXCEPT ![h] = "done"]
          /\ UNCHANGED <<threadCount, loc>>
    /\ UNCHANGED <<store, inv>>

\* Mutant of SubmitTail: the confirmation is sent before the store write.
SubmitTailConfirmFirst(tid, stored, confirmed, apologised) ==
    <<Send("Confirmation", confirmed)>>
    \o (IF confirmed
        THEN <<Call("store_set", "", tid, stored)>>
             \o (IF stored THEN <<>> ELSE <<Log("store_failed")>>)
        ELSE Apology(TRUE, apologised))

\* Mutant of SubmitTail: after a failed store write the handler ends without
\* a reply.
SubmitTailSilentOnStoreFailure(tid, stored, confirmed, apologised) ==
    IF stored
    THEN <<Call("store_set", "", tid, TRUE), Send("Confirmation", confirmed)>>
         \o (IF confirmed THEN <<>> ELSE Apology(TRUE, apologised))
    ELSE <<Call("store_set", "", tid, FALSE), Log("store_failed")>>

\* What on_message does once the thread exists: the store write (stored
\* says whether it succeeded), then the confirmation; a send that raises
\* discord.HTTPException is caught by the handler of thread creation.
SubmitTail(tid, stored, confirmed, apologised) ==
    <<Call("store_set", "", tid, stored)>>
    \o (IF stored THEN <<>> ELSE <<Log("store_failed")>>)
    \o <<Send("Confirmation", confirmed)>>
    \o (IF confirmed THEN <<>> ELSE Apology(TRUE, apologised))

\* await run_in_executor(doc_ref.set(...)) and the rest of on_message
StoreSet(h) ==
    /\ Resumes(h, "store_set")
    /\ \E stored \in BOOLEAN, confirmed \in BOOLEAN, apologised \in BOOLEAN :
          /\ confirmed => apologised
          /\ IF stored
             THEN store' = [store EXCEPT ![DocKey(loc[h].tid)] =
                               NewDoc(inv[h].msg, loc[h].desc, loc[h].tid, ServerTime(@))]
             ELSE UNCHANGED store
          /\ trace' = [trace EXCEPT ![h] = @ \o SubmitTail(loc[h].tid, stored, confirmed, apologised)]
    /\ pc' = [pc EXCEPT ![h] = "done"]
    /\ UNCHANGED <<threadCount, inv, loc>>

\* The coroutine has ended; the slot takes the next event.
Return(h) ==
    /\ pc[h] = "done"
    /\ pc' = [pc EXCEPT ![h] = "idle"]
    /\ inv' = [inv EXCEPT ![h] = NoInv]
    /\ loc' = [loc EXCEPT ![h] = NoLoc]
    /\ trace' = [trace EXCEPT ![h] = <<>>]
    /\ UNCHANGED <<threadCount, store>>

(* --------------------------- resolve_doubt --------------------------- *)
\* The channels a command can be invoked in: a plain channel, a thread the
\* bot created, or some other thread.
Channels == {NoThread, ForeignThread} \cup 1..threadCount

\* Mutant of ResolveError: the error is logged and nobody is told.
ResolveErrorSilent(ok) == <<Log("resolve_error")>>

\* The except clause of resolve_doubt: logs, and tells the channel.
ResolveError(ok) == <<Log("resolve_error"), Send("ResolveError", ok)>>

\* A reply sent inside the try block: a send that raises is caught there.
ResolveReply(kind, ok, eok) ==
    <<Send(kind, ok)>> \o (IF ok THEN <<>> ELSE ResolveError(eok))

\* Mutant of IsThread: any channel passes for a thread.
IsThreadAlways(channel) == TRUE

\* isinstance(ctx.channel, discord.Thread)
IsThread(channel) == channel # NoThread

\* resolve_doubt up to its first shared await
ResolveInvoke(h, channel, actor) ==
    /\ FreeSlot(h)
    /\ inv' = [inv EXCEPT ![h] = [NoInv EXCEPT !.op = "resolve", !.channel = channel, !.actor = actor]]
    /\ IF ~IsThread(channel)
       THEN /\ \E ok \in BOOLEAN : trace' = [trace EXCEPT ![h] = <<Send("WrongContext", ok)>>]
            /\ pc' = [pc EXCEPT ![h] = "done"]
            /\ UNCHANGED loc
       ELSE /\ loc' = [loc EXCEPT ![h].tid = channel]
            /\ pc' = [pc EXCEPT ![h] = "get"]
            /\ UNCHANGED trace
    /\ UNCHANGED <<threadCount, store>>

\* Mutant of AfterGet: the status of the document is not looked at.
AfterGetNoStatusCheck(doc) == IF doc = NoDoc THEN "NotFound" ELSE "update"

\* Mutant of AfterGet: the existence of the document is not looked at.
AfterGetNoExistsCheck(doc) == IF doc.status = "resolved" THEN "AlreadyResolved" ELSE "update"

\* What resolve_doubt does with the document it read, short of the update.
AfterGet(doc) ==
    IF doc = NoDoc THEN "NotFound"
    ELSE IF doc.status = "resolved" THEN "AlreadyResolved"
    ELSE "update"

\* await run_in_executor(query_doc_ref.get()) and what follows it
StoreGet(h) ==
    /\ Resumes(h, "get")
    /\ LET tid == loc[h].tid
           doc == store[DocKey(tid)]
       IN \/ \* the read raises
             /\ \E eok \in BOOLEAN :
                   trace' = [trace EXCEPT ![h] = <<Call("store_get", "", tid, FALSE)>> \o ResolveError(eok)]
             /\ pc' = [pc EXCEPT ![h] = "done"]
             /\ UNCHANGED loc
          \/ /\ AfterGet(doc) = "update"
             /\ trace' = [trace EXCEPT ![h] = <<Call("store_get", "", tid, TRUE)>>]
             /\ loc' = [loc EXCEPT ![h].doc = doc]
             /\ pc' = [pc EXCEPT ![h] = "update"]
          \/ /\ AfterGet(doc) # "update"
             /\ \E ok \in BOOLEAN, eok \in BOOLEAN :
                   /\ ok => eok
                   /\ trace' = [trace EXCEPT ![h] =
                                   <<Call("store_get", "", tid, TRUE)>>
                                   \o ResolveReply(AfterGet(doc), ok, eok)
                                   \o (IF ok /\ doc = NoDoc THEN <<Log("no_query")>> ELSE <<>>)]
             /\ loc' = [loc EXCEPT ![h].doc = doc]
             /\ pc' = [pc EXCEPT ![h] = "done"]
    /\ UNCHANGED <<threadCount, store, inv>>

\* await run_in_executor(query_doc_ref.update({...})) and what follows it;
\* the store refuses to update a document that does not exist.
StoreUpdate(h) ==
    /\ Resumes(h, "update")
    /\ LET tid == loc[h].tid
           key == DocKey(tid)
       IN
       \E written \in BOOLEAN, ok \in BOOLEAN, eok \in BOOLEAN :
          /\ written => store[key] # NoDoc
          /\ (written /\ ok) => eok
          /\ ~written => ok
          /\ IF written
             THEN /\ store' = [store EXCEPT ![key] = ResolvedDoc(@, inv[h].actor, ServerTime(@))]
                  /\ trace' = [trace EXCEPT ![h] =
                                  Append(@, Call("store_update", "", tid, TRUE))
                                  \o ResolveReply("Resolved", ok, eok)]
             ELSE /\ UNCHANGED store
                  /\ trace' = [trace EXCEPT ![h] =
                                  Append(@, Call("store_update", "", tid, FALSE))
                                  \o ResolveError(eok)]
    /\ pc' = [pc EXCEPT ![h] = "done"]
    /\ UNCHANGED <<threadCount, inv, loc>>

(* -------------------------- list_open_doubts ------------------------- *)
ChunkSize == 1900

\* Mutant of OpenDocs: the query returns every document, whatever its status.
RECURSIVE OpenDocsAnyStatus(_)
OpenDocsAnyStatus(k) ==
    IF k > MaxThreads THEN <<>>
    ELSE (IF store[k] # NoDoc THEN <<store[k]>> ELSE <<>>) \o OpenDocsAnyStatus(k + 1)

\* queries_ref.where('status', '==', 'open').get(): the open documents
RECURSIVE OpenDocs(_)
OpenDocs(k) ==
    IF k > MaxThreads THEN <<>>
    ELSE (IF store[k] # NoDoc /\ store[k].status = "open" THEN <<store[k]>> ELSE <<>>)
         \o OpenDocs(k + 1)

\* len() of one entry of the report; fetched: the thread was fetched and
\* its mention is used, otherwise the URL.
EntryLen(doc, fetched) ==
    14 + Len(doc.author_name) + 1
    + 13 + CharLen(doc.doubt_description) + 1
    + 15 + 20 + 1
    + 14 + (IF fetched THEN 4 ELSE 32) + 2

RECURSIVE EntriesLen(_, _)
EntriesLen(docs, fetched) ==
    IF docs = <<>> THEN 0
    ELSE EntryLen(Head(docs), Head(fetched)) + EntriesLen(Tail(docs), Tail(fetched))

\* len(response_message)
ReportLen(docs, fetched) == 28 + EntriesLen(docs, fetched)

\* the chunks [i:i + 1900] for i in range(0, len, 1900), as their lengths
Chunks(n) ==
    [i \in 1..((n + ChunkSize - 1) \div ChunkSize) |->
        IF i * ChunkSize <= n THEN ChunkSize ELSE n - (i - 1) * ChunkSize]

\* Mutant of ChunkRanges: the chunks start 1901 characters apart.
ChunkRangesSkipping(n) ==
    [i \in 1..((n + ChunkSize) \div (ChunkSize + 1)) |->
        [lo |-> (i - 1) * (ChunkSize + 1),
         hi |-> IF (i - 1) * (ChunkSize + 1) + ChunkSize <= n
                THEN (i - 1) * (ChunkSize + 1) + ChunkSize ELSE n]]

\* the same chunks as the slices [lo:hi] of a report of n characters
ChunkRanges(n) ==
    [i \in 1..((n + ChunkSize - 1) \div ChunkSize) |->
        [lo |-> (i - 1) * ChunkSize,
         hi |-> IF i * ChunkSize <= n THEN i * ChunkSize ELSE n]]

\* list_error, the error handler of the command: the command message is
\* deleted (or the failure to delete it is logged); a caller without the
\* permission is told so, any other error is logged and reported.
list_error(missing, ok) ==
    <<Call("delete", "", 0, TRUE)>>
    \o (IF missing
        THEN <<Send("PermissionDenied", ok)>> \o (IF ok THEN <<Log("no_permission")>> ELSE <<>>)
        ELSE <<Log("unhandled"), Send("ListUnexpected", ok)>>)

\* Mutant of ListFailure: after a rejected private delivery the report is
\* posted in the channel.
ListFailurePublicReport(forbidden, ok, eok) ==
    IF forbidden
    THEN <<Send("Report", ok)>> \o (IF ok THEN <<Log("dm_forbidden")>> ELSE list_error(FALSE, eok))
    ELSE <<Log("list_error"), Send("ListError", ok)>>
         \o (IF ok THEN <<>> ELSE list_error(FALSE, eok))

\* the except clauses of list_open_doubts; a send that raises inside one of
\* them leaves the command and is handled by list_error
ListFailure(forbidden, ok, eok) ==
    IF forbidden
    THEN <<Send("DMFallback", ok)>>
         \o (IF ok THEN <<Log("dm_forbidden")>> ELSE list_error(FALSE, eok))
    ELSE <<Log("list_error"), Send("ListError", ok)>>
         \o (IF ok THEN <<>> ELSE list_error(FALSE, eok))

\* the private sends of n chunks (kind) of which chunk `bad` raises
\* (0: none does), and the except clause that catches it
RECURSIVE Deliver(_, _, _, _, _, _, _)
Deliver(kind, i, n, bad, forbidden, ok, eok) ==
    IF i > n THEN <<>>
    ELSE IF i = bad THEN <<Call("dm", kind, i, FALSE)>> \o ListFailure(forbidden, ok, eok)
    ELSE <<Call("dm", kind, i, TRUE)>> \o Deliver(kind, i + 1, n, bad, forbidden, ok, eok)

\* Mutant of ListInvoke: the command runs whatever the caller's permissions.
ListInvokeUnchecked(h, actor, perm) ==
    /\ FreeSlot(h)
    /\ inv' = [inv EXCEPT ![h] = [NoInv EXCEPT !.op = "list", !.actor = actor, !.perm = perm]]
    /\ trace' = [trace EXCEPT ![h] = <<Call("delete", "", 0, TRUE)>>]
    /\ pc' = [pc EXCEPT ![h] = "query"]
    /\ UNCHANGED <<threadCount, store, loc>>

\* the permission check of the command, list_error, and list_open_doubts
\* up to its first shared await; the command message is deleted, or the
\* failure to delete it is logged
ListInvoke(h, actor, perm) ==
    /\ FreeSlot(h)
    /\ inv' = [inv EXCEPT ![h] = [NoInv EXCEPT !.op = "list", !.actor = actor, !.perm = perm]]
    /\ IF perm
       THEN /\ trace' = [trace EXCEPT ![h] = <<Call("delete", "", 0, TRUE)>>]
            /\ pc' = [pc EXCEPT ![h] = "query"]
       ELSE /\ \E ok \in BOOLEAN : trace' = [trace EXCEPT ![h] = list_error(TRUE, ok)]
            /\ pc' = [pc EXCEPT ![h] = "done"]
    /\ UNCHANGED <<threadCount, store, loc>>

\* The outcomes a failing delivery can have: which chunk raises (0: none),
\* whether it raises discord.Forbidden, and whether the sends of the except
\* clause and of list_error succeed.  Outcomes that are not used are fixed.
Outcomes(n) ==
    {o \in [bad : 0..n, forbidden : BOOLEAN, ok : BOOLEAN, eok : BOOLEAN] :
        /\ o.bad = 0 => (o.forbidden /\ o.ok)
        /\ o.ok => o.eok}

\* Mutant of StoreQuery: the notice of an empty listing is posted in the
\* channel.
EmptyListingPublic(o) == <<Send("NoOpenDoubts", o.bad = 0)>>

\* the notice of an empty listing: one private message to the caller
EmptyListing(o) == Deliver("NoOpenDoubts", 1, 1, o.bad, o.forbidden, o.ok, o.eok)

\* await run_in_executor(...where(...).get()) and what follows it
StoreQuery(h) ==
    /\ Resumes(h, "query")
    /\ LET docs == OpenDocs(1) IN
       \/ \* the query raises
          /\ \E o \in Outcomes(0) :
                trace' = [trace EXCEPT ![h] =
                             Append(@, Call("store_query", "", 0, FALSE))
                             \o ListFailure(FALSE, o.ok, o.eok)]
          /\ pc' = [pc EXCEPT ![h] = "done"]
          /\ UNCHANGED loc
       \/ /\ docs = <<>>
          /\ \E o \in Outcomes(1) :
                trace' = [trace EXCEPT ![h] =
                             Append(@, Call("store_query", "", 0, TRUE)) \o EmptyListing(o)]
          /\ pc' = [pc EXCEPT ![h] = "done"]
          /\ UNCHANGED loc
       \/ /\ docs # <<>>
          /\ trace' = [trace EXCEPT ![h] = Append(@, Call("store_query", "", 0, TRUE))]
          /\ loc' = [loc EXCEPT ![h].open = docs]
          /\ pc' = [pc EXCEPT ![h] = "deliver"]
    /\ UNCHANGED <<threadCount, store, inv>>

\* the calls of the rendering loop: bot.fetch_channel for each record in
\* turn; a thread that is not found or forbidden is listed by its URL
Fetches(docs, fetched) ==
    [i \in 1..Len(docs) |->
        Call("fetch", IF fetched[i] THEN "mention" ELSE "url", docs[i].thread_id, TRUE)]

\* the rendering loop and the private delivery of the chunks
ListDeliver(h) ==
    /\ Resumes(h, "deliver")
    /\ LET docs == loc[h].open IN
       \/ \* every thread is fetched or falls back to its URL
          \E fetched \in [1..Len(docs) -> BOOLEAN] :
             LET n == Len(ChunkRanges(ReportLen(docs, fetched))) IN
             \E o \in Outcomes(n) :
                trace' = [trace EXCEPT ![h] =
                            @ \o Fetches(docs, fetched)
                            \o Deliver("Report", 1, n, o.bad, o.forbidden, o.ok, o.eok)]
       \/ \* a fetch raises something other than NotFound or Forbidden
          \E i \in 1..Len(docs), fetched \in [1..Len(docs) -> BOOLEAN], o \in Outcomes(0) :
             /\ \A j \in i..Len(docs) : fetched[j]
             /\ trace' = [trace EXCEPT ![h] =
                            @ \o SubSeq(Fetches(docs, fetched), 1, i - 1)
                            \o <<Call("fetch", "", docs[i].thread_id, FALSE)>>
                            \o ListFailure(FALSE, o.ok, o.eok)]
    /\ pc' = [pc EXCEPT ![h] = "done"]
    /\ UNCHANGED <<threadCount, store, inv, loc>>

(* --------------------------- specifications -------------------------- *)
Next ==
    \E h \in Handlers :
        \/ \E m \in Messages : OnMessage(h, m)
        \/ CreateThread(h)
        \/ StoreSet(h)
        \/ \E c \in Channels, a \in Users : ResolveInvoke(h, c, a)
        \/ StoreGet(h)
        \/ StoreUpdate(h)
        \/ \E p \in BOOLEAN : ListInvoke(h, 1, p)
        \/ StoreQuery(h)
        \/ ListDeliver(h)
        \/ Return(h)

Spec == Init /\ [][Next]_vars

\* One submission of any message, alone.
NextSubmit ==
    \/ FreeSlot("h1") /\ \E m \in GenMessages : OnMessage("h1", m)
    \/ CreateThread("h1")
    \/ StoreSet("h1")

SpecSubmit == Init /\ [][NextSubmit]_vars

\* Submissions only, of two coroutines at a time, where a suspended
\* coroutine is resumed in the end: every await of on_message returns or
\* raises, and the event loop runs its ready coroutines in turn, whatever
\* other events arrive.  (The fairness is strong because a resumption waits
\* while an ended coroutine leaves the loop, see NoneEnded.)
NextDoubts ==
    \E h \in Handlers :
        \/ \E m \in Messages : OnMessage(h, m)
        \/ CreateThread(h)
        \/ StoreSet(h)
        \/ Return(h)

SpecDoubts ==
    /\ Init /\ [][NextDoubts]_vars
    /\ \A h \in Handlers : SF_vars(CreateThread(h)) /\ SF_vars(StoreSet(h)) /\ WF_vars(Return(h))

\* Submissions of long doubts, resolves and listings, one coroutine at a
\* time.
NextList ==
    \/ FreeSlot("h1") /\ \E m \in LongMessages : OnMessage("h1", m)
    \/ CreateThread("h1")
    \/ StoreSet("h1")
    \/ \E c \in Channels : ResolveInvoke("h1", c, 2)
    \/ StoreGet("h1")
    \/ StoreUpdate("h1")
    \/ \E p \in BOOLEAN : ListInvoke("h1", 1, p)
    \/ StoreQuery("h1")
    \/ ListDeliver("h1")
    \/ Return("h1")

SpecList == Init /\ [][NextList]_vars

(* ============================== claims =============================== *)
\* What the claims read off a handler.
Done(h) == pc[h] = "done"
Submits(h) == inv[h].op = "submit"
Resolves(h) == inv[h].op = "resolve"
Idx(h) == 1..Len(trace[h])
Called(h, ev) == \E i \in Idx(h) : trace[h][i].ev = ev
SentKind(h, kind) == \E i \in Idx(h) : trace[h][i].ev = "send" /\ trace[h][i].kind = kind
Logged(h, kind) == \E i \in Idx(h) : trace[h][i].ev = "log" /\ trace[h][i].kind = kind
Wrote(h) == \E i \in Idx(h) : trace[h][i].ev \in {"store_set", "store_update"}
Status(k) == store[k].status
NoRecords == \A k \in StoreKeys : store[k] = NoDoc

\* The claims' own reading of a message text: it is a doubt when it begins
\* with the keyword in any case; its description is what is left of the text
\* behind the keyword once every mention token is taken out and the blanks
\* at both ends are dropped.
IsMentionToken(t) == \E u \in Users : t = MentionStr(u)
BeginsWithKeyword(text) == Len(text) > 0 /\ text[1] \in {"doubt", "DOUBT", "Doubt"}
WithoutMentions(text) == SelectSeq(text, LAMBDA t : ~IsMentionToken(t))
FirstWord(text) == CHOOSE i \in 1..(Len(text) + 1) :
    /\ i = Len(text) + 1 \/ text[i] # Blank
    /\ \A j \in 1..(i - 1) : text[j] = Blank
LastWord(text) == CHOOSE i \in 0..Len(text) :
    /\ i = 0 \/ text[i] # Blank
    /\ \A j \in (i + 1)..Len(text) : text[j] = Blank
Trimmed(text) == SubSeq(text, FirstWord(text), LastWord(text))
CleanDescription(text) == Trimmed(WithoutMentions(SubSeq(text, 2, Len(text))))
DoubtFromMember(h) ==
    Submits(h) /\ inv[h].msg.author # BotUser /\ BeginsWithKeyword(inv[h].msg.content)

\* C1: a query's status only moves absent -> open -> resolved: a resolved
\* record is never open again, and a record that exists is never deleted.
C1_StatusOnlyAdvances ==
    [][\A k \in StoreKeys :
          \/ Status(k)' = Status(k)
          \/ Status(k) = "absent" /\ Status(k)' = "open"
          \/ Status(k) = "open" /\ Status(k)' = "resolved"]_vars

\* C1 witness: a record was resolved, a later submission and a later resolve
\* on its thread have run, and it is still resolved.
C1_Witness ==
    \E h \in Handlers, k \in ThreadIds :
        /\ Status(k) = "resolved"
        /\ k < threadCount
        /\ Done(h) /\ Resolves(h) /\ loc[h].tid = k
        /\ SentKind(h, "AlreadyResolved")

\* C2: a resolve that finds its thread's record already resolved reports
\* AlreadyResolved, writes nothing, and leaves the record (resolved_at,
\* resolved_by, last_activity_at and all the rest) as the first resolve set it.
C2_ResolveIdempotent ==
    \A h \in Handlers :
        (Resolves(h) /\ loc[h].doc # NoDoc /\ loc[h].doc.status = "resolved")
        => /\ Done(h)
           /\ Len(trace[h]) >= 2
           /\ trace[h][1] = Call("store_get", "", loc[h].tid, TRUE)
           /\ trace[h][2].ev = "send" /\ trace[h][2].kind = "AlreadyResolved"
           /\ ~Wrote(h)
           /\ store[loc[h].tid] = loc[h].doc
           /\ store[loc[h].tid].resolved_at > 0
           /\ store[loc[h].tid].resolved_by_id \in Users

\* C2 witness: a second resolve, by the other member, has ended on a
\* resolved record.
C2_Witness ==
    \E h \in Handlers :
        /\ Done(h) /\ Resolves(h)
        /\ loc[h].doc # NoDoc /\ loc[h].doc.status = "resolved"
        /\ loc[h].doc.resolved_by_id # inv[h].actor

\* C3: in a submission the thread is created before the store write is
\* issued, the store write has ended before the confirmation is sent, and no
\* confirmation is sent without a thread.
C3_SubmitOrder ==
    \A h \in Handlers :
        Submits(h) =>
        \A i \in Idx(h) :
            /\ trace[h][i].ev = "store_set"
               => \E j \in 1..(i - 1) :
                     trace[h][j] = Call("create_thread", "", trace[h][i].id, TRUE)
            /\ (trace[h][i].ev = "send" /\ trace[h][i].kind = "Confirmation")
               => \E j \in 1..(i - 1), k \in 1..(i - 1) :
                     /\ j < k
                     /\ trace[h][j].ev = "create_thread" /\ trace[h][j].ok
                     /\ trace[h][k].ev = "store_set" /\ trace[h][k].id = trace[h][j].id

\* C3 witness: a submission has gone through all three steps.
C3_Witness ==
    \E h \in Handlers :
        /\ Done(h) /\ Submits(h)
        /\ \E i \in Idx(h) : trace[h][i] = Call("create_thread", "", loc[h].tid, TRUE)
        /\ \E i \in Idx(h) : trace[h][i] = Call("store_set", "", loc[h].tid, TRUE)
        /\ \E i \in Idx(h) : trace[h][i] = Send("Confirmation", TRUE)

\* The creation-time fields the claims expect of the record of message m
\* under key k.
AsSubmitted(doc, m, k) ==
    /\ doc.thread_id = k
    /\ doc.message_id = m.id
    /\ doc.author_id = m.author
    /\ doc.query_content = m.content
    /\ doc.doubt_description = CleanDescription(m.content)
    /\ Len(doc.mentioned_mentors_ids) = Len(m.mentions)
    /\ \A i \in 1..Len(m.mentions) : doc.mentioned_mentors_ids[i] = m.mentions[i]
    /\ doc.mentor_pinged = FALSE
    /\ doc.created_at = 1

\* C4: the record of an accepted submission is keyed by the id of the thread
\* created for the message, has thread_id equal to the key, status open,
\* mentor_pinged false and the message's mentions in their order; a record
\* read back (by resolve, by list) has those creation-time values.
C4_RecordAsSubmitted ==
    /\ \A h \in Handlers :
          (Done(h) /\ Submits(h) /\ \E i \in Idx(h) : trace[h][i].ev = "store_set" /\ trace[h][i].ok)
          => LET k == loc[h].tid IN
             /\ \E i \in Idx(h) : trace[h][i] = Call("create_thread", "", k, TRUE)
             /\ \E i \in Idx(h) : trace[h][i] = Call("store_set", "", k, TRUE)
             /\ store[k] # NoDoc
             /\ store[k].status = "open"
             /\ store[k].last_activity_at = store[k].created_at
             /\ AsSubmitted(store[k], inv[h].msg, k)
    /\ \A h \in Handlers :
          /\ loc[h].doc # NoDoc
             => \E m \in Messages : AsSubmitted(loc[h].doc, m, loc[h].tid)
          /\ \A i \in 1..Len(loc[h].open) :
                \E m \in Messages : AsSubmitted(loc[h].open[i], m, loc[h].open[i].thread_id)

\* C4 witness: a record with two mentions, not in ascending order, was
\* written, resolved since, and read back.
C4_Witness ==
    \E h \in Handlers :
        /\ Resolves(h) /\ loc[h].doc # NoDoc
        /\ loc[h].doc.status = "resolved"
        /\ loc[h].doc.mentioned_mentors_ids = <<2, 1>>

\* C5: a doubt without mentions, however long its description, is answered
\* with the NoMentorTagged message in its channel, and neither a thread nor a
\* record is created.
C5_NoMentorRejected ==
    \A h \in Handlers :
        (DoubtFromMember(h) /\ inv[h].msg.mentions = <<>>)
        => /\ Done(h)
           /\ Len(trace[h]) = 1
           /\ trace[h][1].ev = "send" /\ trace[h][1].kind = "NoMentorTagged"
           /\ threadCount = 0
           /\ NoRecords

\* C5 witness: a doubt without mentions and with a long enough description
\* was rejected.
C5_Witness ==
    /\ Done("h1") /\ DoubtFromMember("h1")
    /\ inv["h1"].msg.mentions = <<>>
    /\ CharLen(CleanDescription(inv["h1"].msg.content)) > 5
    /\ SentKind("h1", "NoMentorTagged")

C7_ThreadFailureStops ==
    \A h \in Handlers :
        (Submits(h) /\ \E i \in Idx(h) : trace[h][i].ev = "create_thread" /\ ~trace[h][i].ok)
        => /\ Done(h)
           /\ Len(trace[h]) = 3
           /\ trace[h][1] = Call("create_thread", "", 0, FALSE)
           /\ trace[h][2].ev = "log"
           /\ trace[h][3].ev = "send"
           /\ trace[h][3].kind \in {"ThreadApology", "UnexpectedApology"}
           /\ ~Called(h, "store_set")
           /\ ~SentKind(h, "Confirmation")
           /\ loc[h].tid = 0

\* C7 witness: a submission ended on a failed thread creation while a thread
\* of another submission exists.
C7_Witness ==
    \E h \in Handlers :
        /\ Done(h) /\ Submits(h)
        /\ \E i \in Idx(h) : trace[h][i] = Call("create_thread", "", 0, FALSE)
        /\ SentKind(h, "ThreadApology")
        /\ threadCount > 0

\* C8: when the store write of a submission fails, the failure is logged,
\* the confirmation is still sent, no apology is sent, and the thread is left
\* without a record.
C8_StoreFailureStillConfirms ==
    \A h \in Handlers :
        (Done(h) /\ Submits(h) /\ \E i \in Idx(h) : trace[h][i].ev = "store_set" /\ ~trace[h][i].ok)
        => /\ Logged(h, "store_failed")
           /\ SentKind(h, "Confirmation")
           /\ ~SentKind(h, "ThreadApology")
           /\ ~SentKind(h, "UnexpectedApology")
           /\ loc[h].tid \in 1..threadCount
           /\ store[loc[h].tid] = NoDoc

\* C9: a resolve invoked outside a thread is answered with the WrongContext
\* message and makes no store call, neither get nor update.
C9_WrongContext ==
    \A h \in Handlers :
        (Resolves(h) /\ inv[h].channel = NoThread)
        => /\ Done(h)
           /\ Len(trace[h]) = 1
           /\ trace[h][1].ev = "send" /\ trace[h][1].kind = "WrongContext"

\* C9 witness: such a resolve has ended while records exist.
C9_Witness ==
    \E h \in Handlers :
        /\ Done(h) /\ Resolves(h) /\ inv[h].channel = NoThread
        /\ SentKind(h, "WrongContext")
        /\ ~NoRecords

\* C10: a resolve in a thread without a record is answered with NotFound,
\* issues no update, and leaves the thread without a record.
C10_NotFound ==
    \A h \in Handlers :
        (/\ Resolves(h) /\ Len(trace[h]) >= 1
         /\ trace[h][1] = Call("store_get", "", loc[h].tid, TRUE)
         /\ loc[h].doc = NoDoc)
        => /\ Done(h)
           /\ Len(trace[h]) >= 2
           /\ trace[h][2].ev = "send" /\ trace[h][2].kind = "NotFound"
           /\ ~Called(h, "store_update")
           /\ store[loc[h].tid] = NoDoc

\* C10 witness: the thread was created by a submission whose store write
\* failed.
C10_Witness ==
    \E h \in Handlers :
        /\ Done(h) /\ Resolves(h)
        /\ loc[h].tid \in 1..threadCount
        /\ store[loc[h].tid] = NoDoc
        /\ SentKind(h, "NotFound")

(* ---------------------------- the listing ---------------------------- *)
ListOf(h) == inv[h].op = "list"
PublicSends(h) == {i \in Idx(h) : trace[h][i].ev = "send"}
PrivateSends(h) == {i \in Idx(h) : trace[h][i].ev = "dm"}
NoOpenRecords == \A k \in StoreKeys : Status(k) # "open"
\* The public messages of the listing that carry no record data.
ContentFree == {"DMFallback", "ListError", "ListUnexpected", "PermissionDenied"}
\* The listing's store query returned no document.
QueriedEmpty(h) ==
    /\ ListOf(h) /\ Done(h) /\ loc[h].open = <<>>
    /\ \E i \in Idx(h) : trace[h][i] = Call("store_query", "", 0, TRUE)
\* The calls a handler made in the step just taken.
Added(h) == SubSeq(trace[h]', Len(trace[h]) + 1, Len(trace[h]'))

\* C11 as stated: a listing that finds no open record sends exactly one
\* private "no open doubts" notice and nothing to a public channel, and
\* writes nothing to the store.
C11_EmptyListingOnlyPrivate ==
    \A h \in Handlers :
        QueriedEmpty(h)
        => /\ Cardinality(PrivateSends(h)) = 1
           /\ \A i \in PrivateSends(h) : trace[h][i].kind = "NoOpenDoubts"
           /\ PublicSends(h) = {}
           /\ ~Wrote(h)

\* C11 as amended: when no record is open and the listing's query succeeds,
\* the step sends exactly one private "no open doubts" notice and leaves
\* the store as it is; nothing is sent to a public channel unless that
\* private send raises, and then only messages without record data follow:
\* the notice to enable private messages when the send was rejected, the
\* error message otherwise.
C11_EmptyListing ==
    [][\A h \in Handlers :
          (/\ ListOf(h) /\ pc[h] = "query" /\ pc[h]' # "query"
           /\ NoOpenRecords
           /\ Added(h)[1] = Call("store_query", "", 0, TRUE))
          => LET t == Added(h) IN
             /\ store' = store
             /\ pc[h]' = "done"
             /\ Len(t) >= 2
             /\ t[2].ev = "dm" /\ t[2].kind = "NoOpenDoubts" /\ t[2].id = 1
             /\ \A i \in 3..Len(t) : t[i].ev \in {"send", "log", "delete"}
             /\ t[2].ok => Len(t) = 2
             /\ ~t[2].ok => \E i \in 3..Len(t) :
                               /\ t[i].ev = "send" /\ t[i].kind \in {"DMFallback", "ListError"}
                               /\ \A j \in 3..(i - 1) : t[j].ev # "send"
             /\ \A i \in 3..Len(t) : t[i].ev = "send" => t[i].kind \in ContentFree]_vars

\* C11 witness: a listing over a store whose only record is resolved had its
\* private notice rejected and posted the notice to enable private messages.
C11_Witness ==
    \E h \in Handlers :
        /\ QueriedEmpty(h)
        /\ \E k \in ThreadIds : Status(k) = "resolved"
        /\ \E i \in Idx(h) : trace[h][i] = Call("dm", "NoOpenDoubts", 1, FALSE)
        /\ SentKind(h, "DMFallback")

\* A private send of the listing raised discord.Forbidden: the except
\* clause that took it is the one that posts the notice to enable private
\* messages.
Rejected(h) ==
    \E i \in PrivateSends(h) :
        /\ ~trace[h][i].ok
        /\ i < Len(trace[h])
        /\ trace[h][i + 1].ev = "send" /\ trace[h][i + 1].kind = "DMFallback"

ListedSome(h) == ListOf(h) /\ Done(h) /\ loc[h].open # <<>>
\* The rendering loop of the listing went through: no fetch raised.
RenderedAll(h) == \A i \in Idx(h) : trace[h][i].ev = "fetch" => trace[h][i].ok
\* How each record's thread is referred to, read off the calls of the loop
\* (they follow the delete and the query).
FetchedOf(h) == [i \in 1..Len(loc[h].open) |-> trace[h][2 + i].kind = "mention"]
\* The slices of the report the listing of h rendered.
RangesOf(h) == ChunkRanges(ReportLen(loc[h].open, FetchedOf(h)))
\* The slices are not empty, at most 1900 characters long, and laid end to
\* end they are the report.
Partition(R, n) ==
    /\ Len(R) >= 1
    /\ R[1].lo = 0
    /\ R[Len(R)].hi = n
    /\ \A i \in 1..Len(R) : R[i].lo < R[i].hi /\ R[i].hi - R[i].lo <= 1900
    /\ \A i \in 1..(Len(R) - 1) : R[i].hi = R[i + 1].lo

\* C13 as stated: every listing that found open records renders one entry
\* per record and delivers all the chunks of the report, in order, each
\* neither empty nor longer than 1900 characters, together the whole report.
C13_AllChunksDelivered ==
    \A h \in Handlers :
        ListedSome(h)
        => LET nd == Len(loc[h].open)
               R == RangesOf(h) IN
           /\ RenderedAll(h)
           /\ Len(trace[h]) >= 2 + nd + Len(R)
           /\ \A i \in 1..nd : trace[h][2 + i] = Call("fetch", trace[h][2 + i].kind, loc[h].open[i].thread_id, TRUE)
           /\ Partition(R, ReportLen(loc[h].open, FetchedOf(h)))
           /\ \A j \in 1..Len(R) : trace[h][2 + nd + j] = Call("dm", "Report", j, TRUE)

\* C13 as amended: a listing that found open records and rendered them all
\* has one entry per record, in the order of the query; the chunks of the
\* report are neither empty nor longer than 1900 characters and together
\* are the whole report; they are sent in order, without a gap, until all
\* are sent or a send raises, and no chunk is sent after a send that raised.
C13_ChunkedDelivery ==
    \A h \in Handlers :
        (ListedSome(h) /\ RenderedAll(h))
        => LET nd == Len(loc[h].open)
               R == RangesOf(h)
               k == Cardinality(PrivateSends(h)) IN
           /\ \A i \in 1..nd : trace[h][2 + i] = Call("fetch", trace[h][2 + i].kind, loc[h].open[i].thread_id, TRUE)
           /\ Partition(R, ReportLen(loc[h].open, FetchedOf(h)))
           /\ 1 <= k /\ k <= Len(R)
           /\ \A j \in 1..k :
                 /\ trace[h][2 + nd + j].ev = "dm"
                 /\ trace[h][2 + nd + j].kind = "Report"
                 /\ trace[h][2 + nd + j].id = j
                 /\ j < k => trace[h][2 + nd + j].ok
           /\ trace[h][2 + nd + k].ok => k = Len(R)

\* C13 witness: a report of 1901 characters went out whole, in a chunk of
\* 1900 characters and one of a single character.
C13_Witness ==
    \E h \in Handlers :
        /\ ListedSome(h) /\ RenderedAll(h)
        /\ ReportLen(loc[h].open, FetchedOf(h)) = 1901
        /\ RangesOf(h) = <<[lo |-> 0, hi |-> 1900], [lo |-> 1900, hi |-> 1901]>>
        /\ \E i \in Idx(h) : trace[h][i] = Call("dm", "Report", 2, TRUE)

\* C14: a listing invoked without the manage-server permission ends in
\* list_error: the caller is sent the permission-denied message, the store
\* is not queried, no thread is fetched and no private message is sent.
C14_PermissionDenied ==
    \A h \in Handlers :
        (ListOf(h) /\ ~inv[h].perm)
        => /\ Done(h)
           /\ Len(trace[h]) \in {2, 3}
           /\ trace[h][1].ev = "delete"
           /\ trace[h][2].ev = "send" /\ trace[h][2].kind = "PermissionDenied"
           /\ Len(trace[h]) = 3 => trace[h][3] = Log("no_permission")
           /\ ~Called(h, "store_query") /\ ~Called(h, "fetch") /\ ~Called(h, "dm")
           /\ loc[h].open = <<>>

\* C14 witness: the permission was denied while an open record exists.
C14_Witness ==
    \E h \in Handlers :
        /\ ListOf(h) /\ ~inv[h].perm /\ Done(h)
        /\ SentKind(h, "PermissionDenied")
        /\ \E k \in ThreadIds : Status(k) = "open"

(* --------------------------- races, failures ------------------------- *)
\* C15: however two resolves of the same open query interleave, only one of
\* them writes: once the record is resolved, resolved_by and resolved_at are
\* never set again, and a resolve writes only to a record that is open.
C15_OneResolveWrites ==
    [][\A k \in ThreadIds :
          Status(k) = "resolved"
          => /\ store[k]'.resolved_by_id = store[k].resolved_by_id
             /\ store[k]'.resolved_at = store[k].resolved_at]_vars

\* The keys of the open records.
OpenKeys == {k \in StoreKeys : Status(k) = "open"}

\* C16: the records a listing renders are exactly the records that are open
\* when its query runs: the query hands over each open record once, as it is
\* in the store, and no other; the rendering loop makes one entry for each of
\* them, in that order, before the first chunk is sent.
C16_ListingIsOpenSet ==
    [][\A h \in Handlers :
          /\ (/\ ListOf(h) /\ pc[h] = "query" /\ pc'[h] # "query"
              /\ Added(h)[1] = Call("store_query", "", 0, TRUE))
             => LET docs == loc'[h].open IN
                /\ {docs[i].thread_id : i \in 1..Len(docs)} = OpenKeys
                /\ Len(docs) = Cardinality(OpenKeys)
                /\ \A i \in 1..Len(docs) : docs[i] = store[docs[i].thread_id]
                /\ (docs = <<>>) <=> (pc'[h] = "done")
          /\ (/\ ListOf(h) /\ pc[h] = "deliver" /\ pc'[h] = "done"
              /\ \E i \in 1..Len(Added(h)) : Added(h)[i].ev = "dm")
             => LET docs == loc[h].open
                    t == Added(h) IN
                /\ Len(t) > Len(docs)
                /\ \A i \in 1..Len(docs) :
                      t[i].ev = "fetch" /\ t[i].ok /\ t[i].id = docs[i].thread_id
                /\ \A i \in (Len(docs) + 1)..Len(t) : t[i].ev # "fetch"
                /\ t[Len(docs) + 1].ev = "dm" /\ t[Len(docs) + 1].kind = "Report"]_vars

\* C16 witness: a listing rendered the one open record while another record
\* is resolved.
C16_Witness ==
    \E h \in Handlers, k \in ThreadIds :
        /\ ListedSome(h) /\ RenderedAll(h)
        /\ \E i \in Idx(h) : trace[h][i] = Call("dm", "Report", 1, TRUE)
        /\ Len(loc[h].open) = 1
        /\ loc[h].open[1].thread_id # k
        /\ Status(k) = "resolved"

\* The replies of a submission: a rejection, an apology or the confirmation.
Replies == {"NoMentorTagged", "DescriptionTooShort", "ThreadApology", "UnexpectedApology", "Confirmation"}
Replied(h) == \E i \in Idx(h) : trace[h][i].ev = "send" /\ trace[h][i].kind \in Replies
\* No call of the submission was made twice.
NoRetry(h) ==
    \A i \in Idx(h), j \in Idx(h) :
        (i # j /\ trace[h][i].ev = trace[h][j].ev /\ trace[h][i].kind = trace[h][j].kind)
        => trace[h][i].ev = "log"

\* C17: every await returning or raising in the end, a doubt submission ends,
\* and when it has ended a reply (a rejection, an apology or the
\* confirmation) has been sent to the channel of the message; no call of the
\* submission is ever made twice.
C17_SubmissionTerminates ==
    /\ \A h \in Handlers : DoubtFromMember(h) ~> (Done(h) /\ Replied(h))
    /\ [](\A h \in Handlers : Submits(h) => NoRetry(h))

\* C17 witness: a submission ended after all of its awaits: the thread, a
\* store write that raised, and the confirmation.
C17_Witness ==
    \E h \in Handlers :
        /\ Done(h) /\ DoubtFromMember(h)
        /\ \E i \in Idx(h) : trace[h][i] = Call("create_thread", "", loc[h].tid, TRUE)
        /\ \E i \in Idx(h) : trace[h][i] = Call("store_set", "", loc[h].tid, FALSE)
        /\ \E i \in Idx(h) : trace[h][i] = Send("Confirmation", TRUE)
        /\ \E g \in Handlers : g # h /\ pc[g] = "store_set"

\* C18: when the store get or the store update of a resolve raises, the
\* step ends the command: the error is logged, the error message is sent, and
\* the store is left as it was; a record that was open is still open and has
\* no resolved_by and no resolved_at.
C18_StoreFailureAborts ==
    [][\A h \in Handlers :
          (/\ inv'[h].op = "resolve" /\ pc[h] \in {"get", "update"} /\ pc'[h] # pc[h]
           /\ Added(h)[1].ev \in {"store_get", "store_update"}
           /\ ~Added(h)[1].ok)
          => LET t == Added(h)
                 k == loc[h].tid IN
             /\ pc'[h] = "done"
             /\ store' = store
             /\ Len(t) = 3
             /\ t[2] = Log("resolve_error")
             /\ t[3].ev = "send" /\ t[3].kind = "ResolveError"
             /\ Status(k) = "open"
                => /\ store'[k].status = "open"
                   /\ store'[k].resolved_by_id = 0
                   /\ store'[k].resolved_at = 0]_vars

\* C18 witness: the update of a resolve raised and the record is still open.
C18_Witness ==
    \E h \in Handlers :
        /\ Done(h) /\ Resolves(h)
        /\ \E i \in Idx(h) : trace[h][i] = Call("store_update", "", loc[h].tid, FALSE)
        /\ SentKind(h, "ResolveError")
        /\ loc[h].tid \in ThreadIds
        /\ Status(loc[h].tid) = "open"

\* The fields of a record that a resolve leaves alone.
CreationFields ==
    {"thread_id", "message_id", "author_id", "author_name", "query_content",
     "doubt_description", "mentioned_mentors_ids", "created_at", "mentor_pinged",
     "channel_id"}

\* C19: a resolve whose update succeeds changes the record keyed by the id
\* of its thread and no other record; in that record it sets status,
\* resolved_by (id and name), resolved_at and last_activity_at (both to the
\* time of the write) and leaves every other field as it was.
C19_ResolveFrame ==
    [][\A h \in Handlers :
          (/\ Resolves(h) /\ pc[h] = "update" /\ pc'[h] = "done"
           /\ Added(h)[1] = Call("store_update", "", loc[h].tid, TRUE))
          => LET k == loc[h].tid IN
             /\ k = inv[h].channel
             /\ \A j \in StoreKeys \ {k} : store'[j] = store[j]
             /\ store[k] # NoDoc
             /\ store'[k].status = "resolved"
             /\ store'[k].resolved_by_id = inv[h].actor
             /\ store'[k].resolved_by_name = UserName(inv[h].actor)
             /\ store'[k].resolved_at > store[k].last_activity_at
             /\ store'[k].last_activity_at = store'[k].resolved_at
             /\ \A f \in CreationFields : store'[k][f] = store[k][f]]_vars

\* C19 witness: the second record was resolved by member 2 while the first
\* one is open.
C19_Witness ==
    \E h \in Handlers :
        /\ Done(h) /\ Resolves(h) /\ loc[h].tid = 2
        /\ \E i \in Idx(h) : trace[h][i] = Call("store_update", "", 2, TRUE)
        /\ Status(1) = "open"
        /\ Status(2) = "resolved"
        /\ store[2].resolved_by_id = 2
        /\ store[2].created_at < store[2].resolved_at

\* C20: in a submission the apology for the thread that could not be created
\* and the confirmation are never both sent, and the apology is sent only
\* when no thread was created and no record was written for the message.
C20_ApologyExcludesConfirmation ==
    \A h \in Handlers :
        (Submits(h) /\ SentKind(h, "ThreadApology"))
        => /\ ~SentKind(h, "Confirmation")
           /\ \A i \in Idx(h) : trace[h][i].ev = "create_thread" => ~trace[h][i].ok
           /\ \A i \in Idx(h) : trace[h][i].ev = "store_set" => ~trace[h][i].ok

(* ---------------------------- the keyword ---------------------------- *)
\* The text holds the keyword somewhere, in any case.
ContainsKeyword(text) == \E i \in 1..Len(text) : text[i] \in {"doubt", "DOUBT", "Doubt"}
\* The text behind the first occurrence of the keyword, without mention
\* tokens, trimmed.
AfterFirstKeyword(text) ==
    LET first == CHOOSE i \in 1..Len(text) :
                    /\ text[i] \in {"doubt", "DOUBT", "Doubt"}
                    /\ \A j \in 1..(i - 1) : text[j] \notin {"doubt", "DOUBT", "Doubt"}
    IN Trimmed(WithoutMentions(SubSeq(text, first + 1, Len(text))))
\* The message of h was taken for a doubt: it was answered with a rejection
\* or went on to the creation of its thread.
ProcessedAsDoubt(h) == pc[h] \in {"create", "store_set"} \/ trace[h] # <<>>
\* The message of h passed both validations.
Accepted(h) == pc[h] \in {"create", "store_set"} \/ Called(h, "create_thread")

\* C21 as stated: a member's message is processed as a doubt exactly when
\* its text holds the keyword anywhere, in any case; the description is what
\* follows the first occurrence of the keyword; a message without the
\* keyword creates neither a thread nor a record.
C21_KeywordAnywhere ==
    \A h \in Handlers :
        (Submits(h) /\ inv[h].msg.author # BotUser)
        => LET text == inv[h].msg.content IN
           /\ ProcessedAsDoubt(h) <=> ContainsKeyword(text)
           /\ Accepted(h) => loc[h].desc = AfterFirstKeyword(text)
           /\ ~ContainsKeyword(text) => (threadCount = 0 /\ NoRecords)

\* C21 as amended: a member's message is processed as a doubt exactly when
\* its text begins with the keyword, in any case; the description is what
\* follows that prefix (without mention tokens, trimmed); a message that does
\* not begin with the keyword is handed to the commands and creates neither
\* a thread nor a record, wherever else the keyword stands in it.
C21_KeywordPrefix ==
    \A h \in Handlers :
        (Submits(h) /\ inv[h].msg.author # BotUser)
        => LET text == inv[h].msg.content IN
           /\ ProcessedAsDoubt(h) <=> BeginsWithKeyword(text)
           /\ Accepted(h) => loc[h].desc = CleanDescription(text)
           /\ ~BeginsWithKeyword(text)
              => (Done(h) /\ trace[h] = <<>> /\ threadCount = 0 /\ NoRecords)

\* C21 witness: a message with a mention and the keyword behind its first
\* word was handed to the commands: no reply, no thread, no record.
C21_Witness ==
    /\ Done("h1") /\ Submits("h1")
    /\ ~BeginsWithKeyword(inv["h1"].msg.content)
    /\ ContainsKeyword(inv["h1"].msg.content)
    /\ inv["h1"].msg.mentions # <<>>
    /\ trace["h1"] = <<>>
    /\ threadCount = 0
====
